---- MODULE Spec2Model ----
(***************************************************************************)
(* A model of qsspp/core.py: compile_qss and the stages it runs in order   *)
(* (_collect, _extract_vars, _remove_var_declarations, _remove_comments,   *)
(* _expand_vars, _apply_functions) and the colour helpers.                 *)
(*                                                                         *)
(* Text is modelled after lexing.  A document is a sequence of lines, a    *)
(* line is what the line regexes (_IMPORT_RE, _VAR_DEF_RE) make of it, and *)
(* the text of a line or of a value is a sequence of tokens, a token being *)
(* what _VAR_USE_RE and _FUNC_RE can tell apart.                           *)
(***************************************************************************)
EXTENDS Integers, Sequences, FiniteSets, TLC

VARIABLES
    files,     \* the file system: document identity -> its lines
    pc,        \* where compile_qss stands
    root,      \* the document compile_qss was called with
    visited,   \* the set handed down through _collect
    stack,     \* the frames of _collect, the innermost last
    reads,     \* per document, the read_text calls of this compilation
    raw,       \* the text _collect returned
    vars_,     \* the variable table, in insertion order
    text,      \* the text of the stage that ran last
    passes,    \* passes the loop of _expand_vars has run
    changed,   \* the flag `changed` of the pass that ran last
    fpasses,   \* passes the loop of _apply_functions has run
    fstable,   \* the loop of _apply_functions met cur2 == cur
    result,    \* what the call returned or raised
    first,     \* the caller's record: each root's first result
    again      \* this call's root was compiled before

vars == <<files, pc, root, visited, stack, reads, raw, vars_, text,
          passes, changed, fpasses, fstable, result, first, again>>

----------------------------------------------------------------------------
(* Tokens.  Every token is a record of the same three fields.              *)

Lit(s)    == [k |-> "lit", s |-> s, n |-> <<>>]      \* any other text
Ref(name) == [k |-> "ref", s |-> name, n |-> <<>>]   \* $name
\* a hex colour: the digits, with or without the leading #
Hex(hash, digits) == [k |-> "hex", s |-> IF hash THEN "#" ELSE "", n |-> digits]
\* a decimal number, written in hundredths (50 is "0.5"), with or without %
Num(w, pct) == [k |-> "num", s |-> IF pct THEN "%" ELSE "", n |-> <<w>>]
Func(name) == [k |-> "func", s |-> name, n |-> <<>>] \* name followed by (
Comma      == [k |-> ",", s |-> "", n |-> <<>>]
RParen     == [k |-> ")", s |-> "", n |-> <<>>]
NL         == [k |-> "nl", s |-> "", n |-> <<>>]     \* a line break
Comment    == [k |-> "comment", s |-> "", n |-> <<>>] \* /* ... */

(* Lines.                                                                  *)
ImportLine(target)  == [k |-> "import", s |-> target, toks |-> <<>>]
DeclLine(name, val) == [k |-> "decl", s |-> name, toks |-> val]
TextLine(toks)      == [k |-> "text", s |-> "", toks |-> toks]
BlankLine           == [k |-> "blank", s |-> "", toks |-> <<>>]
\* a one-line comment holding the word Variables
BannerLine          == [k |-> "banner", s |-> "", toks |-> <<Comment>>]

(* Results of a call.                                                      *)
NoResult      == [kind |-> "none", arg |-> "", out |-> <<>>]
Ok(t)         == [kind |-> "ok", arg |-> "", out |-> t]
Raised(kind, arg) == [kind |-> kind, arg |-> arg, out |-> <<>>]

----------------------------------------------------------------------------
(* Sequence helpers.                                                       *)

Min(a, b) == IF a < b THEN a ELSE b
Max(a, b) == IF a > b THEN a ELSE b

\* the concatenation of the sequences ss[lo] .. ss[hi]
RECURSIVE Flatten(_, _, _)
Flatten(ss, lo, hi) ==
    IF lo > hi THEN <<>>
    ELSE IF lo = hi THEN ss[lo]
    ELSE LET mid == (lo + hi) \div 2
         IN Flatten(ss, lo, mid) \o Flatten(ss, mid + 1, hi)

\* the sum of ns[lo] .. ns[hi], or cap + 1 once it passes cap
RECURSIVE SumUpTo(_, _, _, _)
SumUpTo(ns, lo, hi, cap) ==
    IF lo > hi THEN 0
    ELSE IF lo = hi THEN Min(cap + 1, ns[lo])
    ELSE LET mid == (lo + hi) \div 2
         IN Min(cap + 1, SumUpTo(ns, lo, mid, cap) + SumUpTo(ns, mid + 1, hi, cap))

----------------------------------------------------------------------------
(* The colour helpers.                                                     *)

\* amounts are fractions of Scale: 0.5 is 5000
Scale == 10000

\* str.strip() of a run of tokens: line breaks at both ends go
RECURSIVE Strip(_)
Strip(toks) ==
    IF toks = <<>> THEN toks
    ELSE IF Head(toks) = NL THEN Strip(Tail(toks))
    ELSE IF toks[Len(toks)] = NL THEN Strip(SubSeq(toks, 1, Len(toks) - 1))
    ELSE toks

\* the decimal digits of a natural number
RECURSIVE DecDigits(_)
DecDigits(m) == IF m < 10 THEN <<m>> ELSE Append(DecDigits(m \div 10), m % 10)

\* the characters int(.., 16) is given, or <<>> when some character is no hex
\* digit: the digits of a hex token; a whole number written plain is digits too
ColorDigits(toks) ==
    IF Len(toks) # 1 THEN <<>>
    ELSE LET t == toks[1]
         IN IF t.k = "hex" THEN t.n
            ELSE IF t.k = "num" /\ t.s = "" /\ t.n[1] >= 0 /\ t.n[1] % 100 = 0
                 THEN DecDigits(t.n[1] \div 100)
            ELSE <<>>

\* _hex_to_rgb: [ok, rgb]; ok is FALSE where it raises ValueError
HexToRgb(color) ==
    LET d0 == ColorDigits(Strip(color))
        d  == IF Len(d0) = 3 THEN <<d0[1], d0[1], d0[2], d0[2], d0[3], d0[3]>> ELSE d0
    IN IF Len(d) = 6
       THEN [ok |-> TRUE, rgb |-> <<16 * d[1] + d[2], 16 * d[3] + d[4], 16 * d[5] + d[6]>>]
       ELSE [ok |-> FALSE, rgb |-> <<0, 0, 0>>]

\* _rgb_to_hex: each channel clamped to 0..255, two upper-case digits each
RgbToHex(r, g, b) ==
    LET c(x) == Max(0, Min(255, x))
    IN Hex(TRUE, <<c(r) \div 16, c(r) % 16, c(g) \div 16, c(g) % 16,
                   c(b) \div 16, c(b) % 16>>)

\* _parse_percent_or_float: [ok, f], f in units of 1/Scale; ok is FALSE where
\* float() raises ValueError
ParsePercentOrFloat(amt) ==
    LET a == Strip(amt)
    IN IF Len(a) = 1 /\ a[1].k = "num"
       THEN [ok |-> TRUE, f |-> IF a[1].s = "%" THEN a[1].n[1] ELSE 100 * a[1].n[1]]
       ELSE [ok |-> FALSE, f |-> 0]

\* int(x) of the fraction num/den: towards zero
Trunc(num, den) == IF num >= 0 THEN num \div den ELSE -((-num) \div den)

\* round(x) of the fraction num/den: to the nearest, a tie to the even one
Round(num, den) ==
    LET q == num \div den
        r == num - q * den
    IN IF 2 * r < den THEN q
       ELSE IF 2 * r > den THEN q + 1
       ELSE IF q % 2 = 0 THEN q ELSE q + 1

\* the text of a whole number
IntText(m) == Num(100 * m, FALSE)

\* _lighten, _darken, _alpha: [ok, out]; ok is FALSE where one raises ValueError
Lighten(color, amt) ==
    LET c == HexToRgb(color)
        p == ParsePercentOrFloat(amt)
        ch(x) == Trunc(x * Scale + (255 - x) * p.f, Scale)
    IN IF c.ok /\ p.ok
       THEN [ok |-> TRUE, out |-> <<RgbToHex(ch(c.rgb[1]), ch(c.rgb[2]), ch(c.rgb[3]))>>]
       ELSE [ok |-> FALSE, out |-> <<>>]

Darken(color, amt) ==
    LET c == HexToRgb(color)
        p == ParsePercentOrFloat(amt)
        ch(x) == Trunc(x * (Scale - p.f), Scale)
    IN IF c.ok /\ p.ok
       THEN [ok |-> TRUE, out |-> <<RgbToHex(ch(c.rgb[1]), ch(c.rgb[2]), ch(c.rgb[3]))>>]
       ELSE [ok |-> FALSE, out |-> <<>>]

Alpha(color, a) ==
    LET c == HexToRgb(color)
        p == ParsePercentOrFloat(a)
        alpha_255 == IF 0 <= p.f /\ p.f <= Scale
                     THEN Round(p.f * 255, Scale)
                     ELSE Round(ParsePercentOrFloat(a).f * 255, Scale)
    IN IF c.ok /\ p.ok
       THEN [ok |-> TRUE,
             out |-> <<Lit("rgba("), IntText(c.rgb[1]), Comma, IntText(c.rgb[2]), Comma,
                       IntText(c.rgb[3]), Comma, IntText(alpha_255), RParen>>]
       ELSE [ok |-> FALSE, out |-> <<>>]

----------------------------------------------------------------------------
(* The stages of compile_qss.                                              *)

\* the variable table is a dict: a sequence of [name, val] in insertion order
HasVar(t, name) == \E i \in 1..Len(t) : t[i].name = name
ValueOf(t, name) == t[CHOOSE i \in 1..Len(t) : t[i].name = name].val

\* vars_[name] = val: a new key goes last, an old key keeps its place
DeclareFirstWins(t, name, val) ==
    IF HasVar(t, name) THEN t ELSE Append(t, [name |-> name, val |-> val])
Declare(t, name, val) ==
    IF HasVar(t, name)
    THEN [i \in 1..Len(t) |-> IF t[i].name = name THEN [name |-> name, val |-> val] ELSE t[i]]
    ELSE Append(t, [name |-> name, val |-> val])

\* _extract_vars: the declarations of the text, in textual order
RECURSIVE ExtractFrom(_, _, _)
ExtractFrom(lines, i, t) ==
    IF i > Len(lines) THEN t
    ELSE ExtractFrom(lines, i + 1,
                     IF lines[i].k = "decl" THEN Declare(t, lines[i].s, lines[i].toks) ELSE t)
ExtractVars(lines) == ExtractFrom(lines, 1, <<>>)

\* "\n".join(lines)
JoinLines(lines) ==
    Flatten([i \in 1..Len(lines) |-> IF i = 1 THEN lines[i].toks ELSE <<NL>> \o lines[i].toks],
            1, Len(lines))

\* _remove_var_declarations: declarations, blank lines and Variables banners go
RemoveVarDeclarations(lines) ==
    LET Stays(l) == l.k \notin {"decl", "blank", "banner"} /\ ~(l.k = "text" /\ l.toks = <<>>)
    IN JoinLines(SelectSeq(lines, Stays))

\* _remove_comments
RemoveComments(toks) ==
    LET Stays(t) == t.k # "comment"
    IN SelectSeq(toks, Stays)

\* what _VAR_USE_RE.sub puts for each token of v: a known $name gives its
\* value in the table, anything else stays
Pieces(v, t) ==
    [i \in 1..Len(v) |-> IF v[i].k = "ref" /\ HasVar(t, v[i].s)
                         THEN ValueOf(t, v[i].s) ELSE <<v[i]>>]
Substitute(v, t) == Flatten(Pieces(v, t), 1, Len(v))
\* the length of Substitute(v, t), or cap + 1 once it passes cap
SubstituteLen(v, t, cap) ==
    LET ps == Pieces(v, t)
    IN SumUpTo([i \in 1..Len(v) |-> Len(ps[i])], 1, Len(v), cap)

\* range(10) in _expand_vars
MaxDepth == 10
\* range(10) in _apply_functions
MaxFuncPasses == 10
\* the longest text the host has memory for, in tokens: building a longer one
\* raises MemoryError
MaxStrLen == 4096

\* one pass of `for k, v in list(resolved.items())` from item i on; the lookups
\* read st.t, the table as the items before i left it
RECURSIVE PassFrom(_, _, _)
PassFrom(items, i, st) ==
    IF i > Len(items) \/ st.err THEN st
    ELSE LET k == items[i].name
             v == items[i].val
         IN IF SubstituteLen(v, st.t, MaxStrLen) > MaxStrLen
            THEN [st EXCEPT !.err = TRUE]
            ELSE LET new_v == Substitute(v, st.t)
                 IN PassFrom(items, i + 1,
                             IF new_v # v
                             THEN [t |-> Declare(st.t, k, new_v), changed |-> TRUE, err |-> FALSE]
                             ELSE st)
\* [t, changed, err]: the table and the flag after the pass; err where it
\* ran out of memory
NoResolve(t) == [t |-> t, changed |-> FALSE, err |-> FALSE]
ResolvePass(t) == PassFrom(t, 1, [t |-> t, changed |-> FALSE, err |-> FALSE])

\* the first token of kind k at or after position from, 0 when there is none
FirstAt(toks, from, k) ==
    LET at == {p \in from..Len(toks) : toks[p].k = k}
    IN IF at = {} THEN 0 ELSE CHOOSE p \in at : \A q \in at : p <= q

\* m.group(1).lower()
Lower(name) ==
    CASE name = "LIGHTEN" -> "lighten"
      [] name = "DARKEN" -> "darken"
      [] name = "ALPHA" -> "alpha"
      [] OTHER -> name

\* repl: the text a matched call is replaced by
Repl(func, color, amt) ==
    CASE func = "lighten" -> Lighten(color, amt)
      [] func = "darken" -> Darken(color, amt)
      [] func = "alpha" -> Alpha(color, amt)
      [] OTHER -> [ok |-> FALSE, out |-> <<>>]

\* _FUNC_RE.sub(repl, toks) from position from on, acc being the text built so
\* far.  A match starts at a function name, its colour runs to the first
\* comma after it and its amount from there to the first closing parenthesis,
\* neither being empty; the scan goes on behind the match.
RECURSIVE SubFrom(_, _, _)
SubFrom(toks, from, acc) ==
    LET i == FirstAt(toks, from, "func")
        j == IF i = 0 THEN 0 ELSE FirstAt(toks, i + 1, ",")
        k == IF j = 0 THEN 0 ELSE FirstAt(toks, j + 1, ")")
    IN IF i = 0 THEN [ok |-> TRUE, out |-> acc \o SubSeq(toks, from, Len(toks))]
       ELSE IF j = 0 \/ j = i + 1 \/ k = 0 \/ k = j + 1
       THEN SubFrom(toks, i + 1, acc \o SubSeq(toks, from, i))
       ELSE LET r == Repl(Lower(toks[i].s), SubSeq(toks, i + 1, j - 1),
                          SubSeq(toks, j + 1, k - 1))
            IN IF r.ok THEN SubFrom(toks, k + 1, acc \o SubSeq(toks, from, i - 1) \o r.out)
               ELSE [ok |-> FALSE, out |-> <<>>]
\* [ok, out]: ok is FALSE where repl raises ValueError
FuncSub(toks) == SubFrom(toks, 1, <<>>)

----------------------------------------------------------------------------
(* The file system and the calls.                                          *)

\* the documents that exist
Docs == DOMAIN files
\* child.exists()
AlwaysExists(d) == TRUE
Exists(d) == d \in Docs

\* the set compile_qss hands to _collect
StaleVisited(old) == old
NewVisited(old) == {}

\* `source in visited`
NeverInProgress(v, source) == FALSE
InProgress(v, source) == source \in v

\* visited when _collect returns: the document stays in it
LeaveOnReturn(v, source) == v \ {source}
VisitedOnReturn(v, source) == v

Frame(source) == [source |-> source, stage |-> "enter", rest |-> <<>>, out |-> <<>>]
Top == stack[Len(stack)]
SetTop(f) == [stack EXCEPT ![Len(stack)] = f]

\* the caller's record once the call has returned or raised r
Record(r) == IF first[root] = NoResult THEN [first EXCEPT ![root] = r] ELSE first

\* compile_qss(r) is called: root = Path(input_path).resolve(), _collect(root, set())
CompileStart(r) ==
    /\ pc \in {"idle", "done", "failed"}
    /\ r \in Docs
    /\ root' = r
    /\ visited' = NewVisited(visited)
    /\ stack' = <<Frame(r)>>
    /\ reads' = [d \in Docs |-> 0]
    /\ raw' = <<>>
    /\ vars_' = <<>>
    /\ text' = <<>>
    /\ passes' = 0
    /\ changed' = FALSE
    /\ fpasses' = 0
    /\ fstable' = FALSE
    /\ result' = NoResult
    /\ again' = (first[r] # NoResult)
    /\ pc' = "collect"
    /\ UNCHANGED <<files, first>>

\* the call raises: nothing is returned; stack stays as the traceback
Raise(kind, arg) ==
    /\ pc' = "failed"
    /\ result' = Raised(kind, arg)
    /\ first' = Record(Raised(kind, arg))

\* _collect up to read_text: the cycle check, visited.add, the read
CollectEnter ==
    /\ pc = "collect"
    /\ Top.stage = "enter"
    /\ IF InProgress(visited, Top.source)
       THEN /\ Raise("ImportCycle", Top.source)
            /\ UNCHANGED <<visited, stack, reads>>
       ELSE IF ~Exists(Top.source)
       THEN /\ Raise("FileNotFound", Top.source)
            /\ visited' = visited \cup {Top.source}
            /\ UNCHANGED <<stack, reads>>
       ELSE /\ visited' = visited \cup {Top.source}
            /\ reads' = [reads EXCEPT ![Top.source] = @ + 1]
            /\ stack' = SetTop([Top EXCEPT !.stage = "scan", !.rest = files[Top.source]])
            /\ UNCHANGED <<pc, result, first>>
    /\ UNCHANGED <<files, root, raw, vars_, text, passes, changed, fpasses, fstable, again>>

\* _IMPORT_RE.sub on the next line: import_repl for an @import, a copy otherwise
CollectScan ==
    /\ pc = "collect"
    /\ Top.stage = "scan"
    /\ Top.rest # <<>>
    /\ LET line == Head(Top.rest)
       IN IF line.k # "import"
          THEN /\ stack' = SetTop([Top EXCEPT !.rest = Tail(@), !.out = Append(@, line)])
               /\ UNCHANGED <<pc, result, first>>
          ELSE IF ~Exists(line.s)
          THEN /\ Raise("FileNotFound", line.s)
               /\ UNCHANGED stack
          ELSE /\ stack' = Append(SetTop([Top EXCEPT !.rest = Tail(@)]), Frame(line.s))
               /\ UNCHANGED <<pc, result, first>>
    /\ UNCHANGED <<files, root, visited, reads, raw, vars_, text, passes, changed,
                   fpasses, fstable, again>>

\* _collect returns its text: to import_repl, which puts it in place of the
\* @import line, or to compile_qss
CollectReturn ==
    /\ pc = "collect"
    /\ Top.stage = "scan"
    /\ Top.rest = <<>>
    /\ visited' = VisitedOnReturn(visited, Top.source)
    /\ IF Len(stack) = 1
       THEN /\ raw' = Top.out
            /\ stack' = <<>>
            /\ pc' = "extract"
       ELSE /\ stack' = [SubSeq(stack, 1, Len(stack) - 1) EXCEPT
                            ![Len(stack) - 1].out = @ \o Top.out]
            /\ UNCHANGED <<raw, pc>>
    /\ UNCHANGED <<files, root, reads, vars_, text, passes, changed, fpasses, fstable,
                   result, first, again>>

\* _extract_vars, _remove_var_declarations, _remove_comments
ExtractStrip ==
    /\ pc = "extract"
    /\ vars_' = ExtractVars(raw)
    /\ text' = RemoveComments(RemoveVarDeclarations(raw))
    /\ pc' = "expand"
    /\ UNCHANGED <<files, root, visited, stack, reads, raw, passes, changed, fpasses,
                   fstable, result, first, again>>

\* one pass of the loop of _expand_vars
ExpandPass ==
    /\ pc = "expand"
    /\ passes < MaxDepth
    /\ passes > 0 => changed
    /\ LET st == ResolvePass(vars_)
       IN IF st.err
          THEN /\ Raise("MemoryError", "")
               /\ UNCHANGED <<vars_, changed, passes>>
          ELSE /\ vars_' = st.t
               /\ changed' = st.changed
               /\ passes' = passes + 1
               /\ UNCHANGED <<pc, result, first>>
    /\ UNCHANGED <<files, root, visited, stack, reads, raw, text, fpasses, fstable, again>>

\* _VAR_USE_RE.sub(use_repl, text), the loop being over
ExpandBody ==
    /\ pc = "expand"
    /\ passes > 0
    /\ changed => passes = MaxDepth
    /\ IF SubstituteLen(text, vars_, MaxStrLen) > MaxStrLen
       THEN /\ Raise("MemoryError", "")
            /\ UNCHANGED text
       ELSE /\ text' = Substitute(text, vars_)
            /\ pc' = "functions"
            /\ UNCHANGED <<result, first>>
    /\ UNCHANGED <<files, root, visited, stack, reads, raw, vars_, passes, changed,
                   fpasses, fstable, again>>

\* one pass of the loop of _apply_functions
FuncPass ==
    /\ pc = "functions"
    /\ fpasses < MaxFuncPasses
    /\ ~fstable
    /\ LET cur2 == FuncSub(text)
       IN IF ~cur2.ok
          THEN /\ Raise("ValueError", "")
               /\ UNCHANGED <<text, fpasses, fstable>>
          ELSE /\ text' = cur2.out
               /\ fstable' = (cur2.out = text)
               /\ fpasses' = fpasses + 1
               /\ UNCHANGED <<pc, result, first>>
    /\ UNCHANGED <<files, root, visited, stack, reads, raw, vars_, passes, changed, again>>

\* compile_qss returns final
Return ==
    /\ pc = "functions"
    /\ ~fstable => fpasses = MaxFuncPasses
    /\ pc' = "done"
    /\ result' = Ok(text)
    /\ first' = Record(Ok(text))
    /\ UNCHANGED <<files, root, visited, stack, reads, raw, vars_, text, passes, changed,
                   fpasses, fstable, again>>

Next ==
    \/ \E r \in Docs : CompileStart(r)
    \/ CollectEnter
    \/ CollectScan
    \/ CollectReturn
    \/ ExtractStrip
    \/ ExpandPass
    \/ ExpandBody
    \/ FuncPass
    \/ Return

\* the state before the first call, the file system being fs
InitWith(fs) ==
    /\ files = fs
    /\ pc = "idle"
    /\ root = ""
    /\ visited = {}
    /\ stack = <<>>
    /\ reads = [d \in DOMAIN fs |-> 0]
    /\ raw = <<>>
    /\ vars_ = <<>>
    /\ text = <<>>
    /\ passes = 0
    /\ changed = FALSE
    /\ fpasses = 0
    /\ fstable = FALSE
    /\ result = NoResult
    /\ first = [d \in DOMAIN fs |-> NoResult]
    /\ again = FALSE

----------------------------------------------------------------------------
(* Spec: documents that import one another.                                *)

\* an @import target with no file behind it
NoFile == "missing"
\* the most @import lines of the file system
MaxImports == 3

\* the sequences of at most n elements of S
SeqsUpTo(S, n) == UNION {[1..m -> S] : m \in 0..n}

\* a document: its @import lines, then a line of its own text
DocLines(d, imports) ==
    [i \in 1..Len(imports) |-> ImportLine(imports[i])] \o <<TextLine(<<Lit(d)>>)>>

\* three documents, each importing any of them or a missing file
ImportDocs == {"main", "a", "b"}
GeneralFiles(gm, ga, gb) ==
    [d \in ImportDocs |-> DocLines(d, CASE d = "main" -> gm [] d = "a" -> ga [] OTHER -> gb)]

\* main imports a and b, both import c, and c whatever tail says
DiamondDocs == {"main", "a", "b", "c"}
DiamondFiles(tail) ==
    [d \in DiamondDocs |-> DocLines(d, CASE d = "main" -> <<"a", "b">>
                                         [] d = "a" -> <<"c">>
                                         [] d = "b" -> <<"c">>
                                         [] OTHER -> tail)]

InitGeneral ==
    \E lm \in 0..MaxImports, la \in 0..MaxImports, lb \in 0..MaxImports :
        /\ lm + la + lb <= MaxImports
        /\ \E gm \in [1..lm -> ImportDocs \cup {NoFile}],
              ga \in [1..la -> ImportDocs \cup {NoFile}],
              gb \in [1..lb -> ImportDocs \cup {NoFile}] :
               InitWith(GeneralFiles(gm, ga, gb))

InitDiamond ==
    \E tail \in SeqsUpTo(DiamondDocs \cup {NoFile}, 1) : InitWith(DiamondFiles(tail))

Init == InitGeneral \/ InitDiamond

Spec == Init /\ [][Next]_vars

\* the documents whose _collect has not returned, the innermost left out
Ancestors == {stack[i].source : i \in 1..(Len(stack) - 1)}

\* C1: when _collect is entered for a document that is still being resolved
\* (a frame below is that document's), the call raises Import-Cycle naming
\* that document and returns no text.
C1_CycleRaises ==
    [][(pc = "collect" /\ Top.stage = "enter" /\ Top.source \in Ancestors)
          => (pc' = "failed" /\ result' = Raised("ImportCycle", Top.source))]_vars

\* a chain main -> x -> y -> main has raised
C1_Witness ==
    /\ pc = "failed"
    /\ result = Raised("ImportCycle", "main")
    /\ Len(stack) = 4
    /\ stack[1].source = "main"
    /\ Cardinality(Ancestors) = 3

\* C2: when the next @import names a target that does not exist, the call
\* raises File-Not-Found naming the target, no frame is entered for it and
\* it does not get into visited.
C2_MissingImportRaises ==
    [][(/\ pc = "collect"
        /\ Top.stage = "scan"
        /\ Top.rest # <<>>
        /\ Head(Top.rest).k = "import"
        /\ Head(Top.rest).s \notin DOMAIN files)
          => (/\ pc' = "failed"
              /\ result' = Raised("FileNotFound", Head(Top.rest).s)
              /\ stack' = stack
              /\ visited' = visited)]_vars

\* a missing target met two imports deep has raised
C2_Witness ==
    /\ pc = "failed"
    /\ result = Raised("FileNotFound", NoFile)
    /\ Len(stack) = 3
    /\ Head(Top.rest) = ImportLine(NoFile)

\* C8: every call starts with an empty visited set and an empty table, and a
\* call on a root compiled before ends as the first call on that root did.
C8_CallsIndependent ==
    /\ (pc = "collect" /\ Len(stack) = 1 /\ Top.stage = "enter")
          => (visited = {} /\ vars_ = <<>>)
    /\ pc \in {"done", "failed"} => result = first[root]

\* a root is compiled again, with success, after a call on main that raised
\* Import-Cycle
C8_Witness ==
    /\ again
    /\ pc = "done"
    /\ root # "main"
    /\ first["main"].kind = "ImportCycle"

\* C9, the state part: no document is read twice in one compilation, and a
\* document whose imports are being expanded is in visited.
C9_ReadOnce ==
    /\ \A d \in DOMAIN reads : reads[d] <= 1
    /\ pc = "collect" =>
          \A i \in 1..Len(stack) : stack[i].stage = "scan" => stack[i].source \in visited

\* C9, the step part: within a compilation visited only grows, and entering a
\* document read before raises Import-Cycle naming it.
C9_Step ==
    pc = "collect" =>
        /\ visited \subseteq visited'
        /\ (Top.stage = "enter" /\ Top.source \in DOMAIN reads /\ reads[Top.source] > 0)
              => (pc' = "failed" /\ result' = Raised("ImportCycle", Top.source))

\* C9: within one compilation the in-progress set only grows, each document
\* is read at most once, and any second visit raises Import-Cycle, ancestor
\* or not.
C9_VisitedOnlyGrows == []C9_ReadOnce /\ [][C9_Step]_vars

\* the diamond: c, imported by a and again by b, has raised at its second
\* visit, a having returned
C9_Witness ==
    /\ pc = "failed"
    /\ result = Raised("ImportCycle", "c")
    /\ Len(stack) = 3
    /\ stack[2].source = "b"
    /\ "c" \notin Ancestors

----------------------------------------------------------------------------
(* SpecFuncs: one document whose text calls the colour functions.          *)

FuncNames == {"lighten", "darken", "alpha", "ALPHA"}

\* colour arguments: #RGB, #RRGGBB, RGB without #, and two that are no colour
ColorArgs ==
    {Hex(TRUE, <<15, 0, 0>>), Hex(TRUE, <<1, 2, 8>>), Hex(FALSE, <<15, 15, 15>>),
     Hex(TRUE, <<0, 0, 0, 0, 0, 0>>), Hex(TRUE, <<15, 15, 0, 0, 0, 0>>),
     Hex(TRUE, <<5, 10, 12, 8, 15, 1>>),
     Hex(TRUE, <<1, 2>>), Lit("red")}

\* amount arguments: 0, 0.25, 0.5, 0.75, 1, 1.5, 2, 50, -0.5, then 0%, 25%,
\* 50%, 75%, 100%, 150%, 200%, and one that is no number
AmountArgs ==
    {Num(w, FALSE) : w \in {0, 25, 50, 75, 100, 150, 200, 5000, -50}}
    \cup {Num(w, TRUE) : w \in {0, 2500, 5000, 7500, 10000, 15000, 20000}}
    \cup {Lit("half")}

\* color: f(c, a); on one line or, with split, broken behind the comma
CallFiles(f, c, a, split) ==
    [d \in {"main"} |->
        IF split
        THEN <<TextLine(<<Lit("color:"), Func(f), c, Comma>>), TextLine(<<a, RParen, Lit(";")>>)>>
        ELSE <<TextLine(<<Lit("color:"), Func(f), c, Comma, a, RParen, Lit(";")>>)>>]

\* color: f(g(c, b), a);
NestedFiles(f, g, c, b, a) ==
    [d \in {"main"} |->
        <<TextLine(<<Lit("color:"), Func(f), Func(g), c, Comma, b, RParen, Comma, a, RParen,
                     Lit(";")>>)>>]

\* colours and amounts of the nested calls
NestedColors == {Hex(TRUE, <<0, 0, 0, 0, 0, 0>>), Hex(TRUE, <<15, 0, 0>>)}
NestedAmounts == {Num(5000, TRUE), Num(2500, TRUE), Num(50, FALSE)}

InitCalls ==
    \E f \in FuncNames, c \in ColorArgs, a \in AmountArgs, split \in BOOLEAN :
        InitWith(CallFiles(f, c, a, split))

InitNested ==
    \E f \in {"lighten", "darken", "alpha"}, g \in {"lighten", "darken", "alpha"},
       c \in NestedColors, b \in NestedAmounts, a \in NestedAmounts :
        InitWith(NestedFiles(f, g, c, b, a))

InitFuncs == InitCalls \/ InitNested

SpecFuncs == InitFuncs /\ [][Next]_vars

\* the text of main is one call of alpha with a hex colour of three or six
\* digits and a number for its amount
AlphaCall ==
    /\ DOMAIN files = {"main"}
    /\ Len(files["main"]) = 1
    /\ LET t == files["main"][1].toks
       IN /\ Len(t) = 7
          /\ t[2].k = "func" /\ t[2].s \in {"alpha", "ALPHA"}
          /\ t[3].k = "hex" /\ Len(t[3].n) \in {3, 6}
          /\ t[5].k = "num"

\* t is the text of a whole number in lo..hi
WholeIn(t, lo, hi) ==
    t.k = "num" /\ t.s = "" /\ \E m \in lo..hi : t.n = <<100 * m>>

\* C6: a call alpha(color, a) with a valid hex colour and a parseable amount
\* is rewritten to rgba(r, g, b, A) with r, g, b and A whole numbers in 0..255.
C6_AlphaInRange ==
    (AlphaCall /\ pc \in {"done", "failed"}) =>
        /\ pc = "done"
        /\ Len(result.out) = 11
        /\ SubSeq(result.out, 1, 2) = <<Lit("color:"), Lit("rgba(")>>
        /\ WholeIn(result.out[3], 0, 255) /\ result.out[4] = Comma
        /\ WholeIn(result.out[5], 0, 255) /\ result.out[6] = Comma
        /\ WholeIn(result.out[7], 0, 255) /\ result.out[8] = Comma
        /\ WholeIn(result.out[9], 0, 255)
        /\ SubSeq(result.out, 10, 11) = <<RParen, Lit(";")>>

\* the text of main is a call whose colour argument is a call, all colours
\* and amounts being well formed
NestedCall ==
    /\ DOMAIN files = {"main"}
    /\ Len(files["main"]) = 1
    /\ LET t == files["main"][1].toks
       IN Len(t) = 11 /\ t[2].k = "func" /\ t[3].k = "func"

\* C3: a call whose colour argument is itself a call, such as
\* darken(lighten(#000000, 50%), 25%), compiles within the ten passes and
\* leaves no call of lighten, darken or alpha in the output.
C3_NestedResolves ==
    (NestedCall /\ pc \in {"done", "failed"}) =>
        /\ pc = "done"
        /\ fpasses <= MaxFuncPasses
        /\ \A i \in 1..Len(result.out) : result.out[i].k # "func"

----------------------------------------------------------------------------
(* SpecVars: documents that declare and use variables.                     *)

\* values of the declarations
VarValues ==
    {<<Lit("red")>>, <<Lit("blue")>>, <<Hex(TRUE, <<1, 1, 1>>)>>,
     <<Lit("1px"), Lit("solid")>>}

\* theme declares $c and uses it; main imports theme, declares $c again,
\* behind the @import or ahead of it, and uses it
ShadowFiles(v1, v2, behind) ==
    [d \in {"main", "theme"} |->
        IF d = "theme"
        THEN <<BannerLine, DeclLine("c", v1), BlankLine,
               TextLine(<<Lit("a{"), Ref("c"), Lit("}"), Comment>>)>>
        ELSE IF behind
        THEN <<ImportLine("theme"), DeclLine("c", v2),
               TextLine(<<Lit("b{"), Ref("c"), Lit("}")>>)>>
        ELSE <<DeclLine("c", v2), ImportLine("theme"),
               TextLine(<<Lit("b{"), Ref("c"), Lit("}")>>)>>]

\* $a: v; then $b: $a; (or the two the other way round) then color: $b;
ChainFiles(v, swapped) ==
    [d \in {"main"} |->
        (IF swapped
         THEN <<DeclLine("b", <<Ref("a")>>), DeclLine("a", v)>>
         ELSE <<DeclLine("a", v), DeclLine("b", <<Ref("a")>>)>>)
        \o <<TextLine(<<Lit("color:"), Ref("b"), Lit(";")>>)>>]

\* texts that use $undefined, which nothing declares: on its own, as the
\* colour of a call, as the amount of a call
UnresolvedTexts ==
    {<<Lit("color:"), Ref("undefined"), Lit(";")>>,
     <<Lit("border:"), Ref("base"), Ref("undefined"), Lit(";")>>}
    \cup {<<Lit("color:"), Func(f), Ref("undefined"), Comma, Num(1000, TRUE), RParen, Lit(";")>> :
             f \in {"lighten", "darken", "alpha"}}
    \cup {<<Lit("color:"), Func(f), Ref("base"), Comma, Ref("undefined"), RParen, Lit(";")>> :
             f \in {"lighten", "darken", "alpha"}}

\* $base: v; then a text that uses $undefined
UnresolvedFiles(v, t) == [d \in {"main"} |-> <<DeclLine("base", v), TextLine(t)>>]

InitShadow ==
    \E v1 \in VarValues, v2 \in VarValues, behind \in BOOLEAN :
        InitWith(ShadowFiles(v1, v2, behind))

InitChain == \E v \in VarValues, swapped \in BOOLEAN : InitWith(ChainFiles(v, swapped))

InitUnresolved == \E v \in VarValues, t \in UnresolvedTexts : InitWith(UnresolvedFiles(v, t))

InitVars == InitShadow \/ InitChain \/ InitUnresolved

SpecVars == InitVars /\ [][Next]_vars

\* the names the lines declare
Declared(lines) == {lines[i].s : i \in {j \in 1..Len(lines) : lines[j].k = "decl"}}

\* the text of main uses $undefined and no document declares it
UnresolvedUse ==
    /\ root = "main"
    /\ \E i \in 1..Len(files["main"]) :
          /\ files["main"][i].k = "text"
          /\ \E j \in 1..Len(files["main"][i].toks) : files["main"][i].toks[j] = Ref("undefined")
    /\ \A d \in DOMAIN files : "undefined" \notin Declared(files[d])

\* C4: a reference to a name nothing declares is no error wherever it
\* stands in the body, inside the arguments of a call too: the call returns
\* and its output holds the literal $name.
C4_UnresolvedPassesThrough ==
    (UnresolvedUse /\ pc \in {"done", "failed"}) =>
        /\ pc = "done"
        /\ \E i \in 1..Len(result.out) : result.out[i] = Ref("undefined")

\* the source of the claim: $a: #111; $b: $a; color: $b;
ChainSource == ChainFiles(<<Hex(TRUE, <<1, 1, 1>>)>>, FALSE)

\* C5 as stated: the chain compiles to color: #111111;
C5_ChainExpandsHex ==
    (files = ChainSource /\ pc \in {"done", "failed"}) =>
        result = Ok(<<Lit("color:"), Hex(TRUE, <<1, 1, 1, 1, 1, 1>>), Lit(";")>>)

\* C5 as amended: the chain compiles to color: #111; the reference to $b
\* gives way to the value reached through $a, written as it was declared.
C5_ChainVerbatim ==
    (files = ChainSource /\ pc \in {"done", "failed"}) =>
        result = Ok(<<Lit("color:"), Hex(TRUE, <<1, 1, 1>>), Lit(";")>>)

\* the chain has compiled, the table having changed in the first pass only
C5_Witness ==
    /\ files = ChainSource
    /\ pc = "done"
    /\ passes = 2
    /\ vars_ = <<[name |-> "a", val |-> <<Hex(TRUE, <<1, 1, 1>>)>>],
                 [name |-> "b", val |-> <<Hex(TRUE, <<1, 1, 1>>)>>]>>

\* main imports a document at its first line and declares at its second a
\* name that document declares too
Shadowed ==
    /\ root = "main"
    /\ Len(files["main"]) = 3
    /\ files["main"][1].k = "import"
    /\ files["main"][1].s \in DOMAIN files
    /\ files["main"][2].k = "decl"
    /\ files["main"][2].s \in Declared(files[files["main"][1].s])

\* C7: the last declaration in textual order wins: with a name declared in
\* the imported document and, behind the @import, in the importing one, the
\* references of both documents' texts give way to the importing one's value.
C7_LastDeclarationWins ==
    (Shadowed /\ pc \in {"done", "failed"}) =>
        LET v == files["main"][2].toks
        IN result = Ok(<<Lit("a{")>> \o v \o <<Lit("}"), NL, Lit("b{")>> \o v \o <<Lit("}")>>)

\* main has compiled with a value other than the imported document's
C7_Witness ==
    /\ Shadowed
    /\ pc = "done"
    /\ files["theme"][2].toks = <<Lit("red")>>
    /\ files["main"][2].toks = <<Lit("blue")>>
    /\ result.out[2] = Lit("blue")

----------------------------------------------------------------------------
(* SpecTable: documents whose declarations refer to themselves and to one  *)
(* another.                                                                *)

\* the tokens of all the values of one table together.  Over the tables of
\* this size a value either stays within 2049 tokens through the 10 passes
\* or, squaring in length at each pass, passes 2^63 tokens: MaxStrLen stands
\* between the two.
MaxTableLen == 3

\* the tokens of a value: a literal, $a, $b, and $u which nothing declares
ValueTokens == {Lit("x"), Ref("a"), Ref("b"), Ref("u")}

\* the values of n tokens
ValuesOf(n) == [1..n -> ValueTokens]

\* $a: v; alone, or $a: v; then $b: w; and a text that uses both
TableFiles(decls) ==
    [d \in {"main"} |->
        decls \o <<TextLine(<<Lit("v:"), Ref("a"), Lit(";"), Lit("w:"), Ref("b"), Lit(";")>>)>>]

InitOne == \E n \in 1..MaxTableLen : \E v \in ValuesOf(n) : InitWith(TableFiles(<<DeclLine("a", v)>>))

InitTwo ==
    \E n \in 1..(MaxTableLen - 1) : \E m \in 1..(MaxTableLen - n) :
        \E v \in ValuesOf(n), w \in ValuesOf(m) :
            InitWith(TableFiles(<<DeclLine("a", v), DeclLine("b", w)>>))

InitTable == InitOne \/ InitTwo

SpecTable == InitTable /\ [][Next]_vars

\* C10: resolving the table always terminates and never raises, whatever the
\* table, circular and self-referring ones too: the loop makes at most 10
\* passes, stops as soon as a pass changes no value, and the body is then
\* expanded once.
C10_ResolutionNeverRaises ==
    /\ passes <= MaxDepth
    /\ pc # "failed"
    /\ pc \in {"functions", "done"} => (passes >= 1 /\ (changed => passes = MaxDepth))

====
